---- MODULE Spec2Model ----
(***************************************************************************)
(* Type expansion (ExpandType, ExpandTypes) and selection-set synthesis    *)
(* (Type.GetQueryStringFields) of the tutone schema package, over a        *)
(* bounded family of schemas.                                              *)
(*                                                                         *)
(* A Go string is modelled as a sequence of tokens: a tab, a newline, a    *)
(* GraphQL name, or one of the literal pieces the code concatenates.       *)
(* GraphQL names hold no tab, newline, space or brace, so two Go strings   *)
(* are equal exactly when their token sequences are.                       *)
(* A *Type is the index of the Type in Schema.Types; the nil pointer is 0. *)
(***************************************************************************)
EXTENDS Integers, Sequences, FiniteSets, TLC

VARIABLES Types, result

vars == <<Types, result>>

\* Largest maxDepth a caller passes to GetQueryStringFields.
MaxDepth == 2

Nil == 0

KindScalar == "SCALAR"
KindObject == "OBJECT"
KindInterface == "INTERFACE"
KindInputObject == "INPUT_OBJECT"
KindList == "LIST"
KindNonNull == "NON_NULL"

TAB == "\t"
NL == "\n"

-----------------------------------------------------------------------------
(* Strings *)

\* strings.Join(lines, "\n")
RECURSIVE Join(_)
Join(lines) ==
    IF Len(lines) = 0 THEN <<>>
    ELSE IF Len(lines) = 1 THEN lines[1]
    ELSE lines[1] \o <<NL>> \o Join(Tail(lines))

\* strings.Split(s, "\n"): never empty, Split("") is one empty line.
RECURSIVE SplitFrom(_, _, _, _)
SplitFrom(s, i, line, lines) ==
    IF i > Len(s) THEN Append(lines, line)
    ELSE IF s[i] = NL THEN SplitFrom(s, i + 1, <<>>, Append(lines, line))
    ELSE SplitFrom(s, i + 1, Append(line, s[i]), lines)

Split(s) == SplitFrom(s, 1, <<>>, <<>>)

\* The Go string of a name.
Str(name) == <<name>>

\* stringInStrings(s, ss): s is an element of the slice ss.
stringInStrings(s, ss) == \E i \in 1..Len(ss) : ss[i] = s

\* Byte order of the field names of the schemas below, as Go's < on strings.
NameOrder == <<"ghost", "id", "name", "owner", "part", "parts", "widget", "widgets">>

NameRank(n) == CHOOSE i \in 1..Len(NameOrder) : NameOrder[i] = n

NameLess(a, b) == NameRank(a) < NameRank(b)

\* strings.Title over the names a root or a Type can have here.
formatGoName(name) ==
    CASE name = "part" -> "Part"
      [] name = "id" -> "ID"
      [] OTHER -> name

-----------------------------------------------------------------------------
(* TypeRef, Field, Type, Schema *)

\* A TypeRef chain, outermost first: OfType is the tail of the sequence.
GetKinds(ref) == [i \in 1..Len(ref) |-> ref[i].Kind]

LastKind(ref) == GetKinds(ref)[Len(GetKinds(ref))]

GetTypeName(ref) ==
    IF \E i \in 1..Len(ref) : ref[i].Name # ""
    THEN ref[CHOOSE i \in 1..Len(ref) :
                 ref[i].Name # "" /\ \A j \in 1..(i - 1) : ref[j].Name = ""].Name
    ELSE "UNKNOWN"

HasOfType(ref) == Len(ref) > 1

OfType(ref) == Tail(ref)

IsRequired(arg) == arg.Type[1].Kind = KindNonNull /\ ~arg.HasDefault

HasRequiredArg(field) == \E i \in 1..Len(field.Args) : IsRequired(field.Args[i])

GetName(t) == formatGoName(t.Name)

LookupTypeByName(types, typeName) ==
    IF \E i \in 1..Len(types) : types[i].Name = typeName
    THEN CHOOSE i \in 1..Len(types) :
             types[i].Name = typeName /\ \A j \in 1..(i - 1) : types[j].Name # typeName
    ELSE Nil

-----------------------------------------------------------------------------
(* schema_util.go *)

typeNameInTypes(s, types) == s \in types

hasType(types, t, list) == \E i \in 1..Len(list) : types[t].Name = types[list[i]].Name

\* One loop of ExpandType: the Types of the wrapped references of fields.
RECURSIVE NestedTypes(_, _)
NestedTypes(types, fields) ==
    IF Len(fields) = 0 THEN <<>>
    ELSE LET i == fields[1]
             res == IF HasOfType(i.Type)
                    THEN LookupTypeByName(types, GetTypeName(OfType(i.Type)))
                    ELSE Nil
         IN (IF res # Nil THEN <<res>> ELSE <<>>) \o NestedTypes(types, Tail(fields))

ExpandType(types, t) ==
    NestedTypes(types, types[t].InputFields) \o NestedTypes(types, types[t].Fields)

RECURSIVE AppendUnique(_, _, _)
AppendUnique(types, expandedTypes, fieldTypes) ==
    IF Len(fieldTypes) = 0 THEN expandedTypes
    ELSE AppendUnique(types,
                      IF hasType(types, fieldTypes[1], expandedTypes)
                      THEN expandedTypes
                      ELSE Append(expandedTypes, fieldTypes[1]),
                      Tail(fieldTypes))

RECURSIVE ExpandFrom(_, _, _, _)
ExpandFrom(types, roots, i, expandedTypes) ==
    IF i > Len(types) THEN expandedTypes
    ELSE IF typeNameInTypes(GetName(types[i]), roots)
         THEN ExpandFrom(types, roots, i + 1,
                  AppendUnique(types, Append(expandedTypes, i), ExpandType(types, i)))
         ELSE ExpandFrom(types, roots, i + 1, expandedTypes)

ExpandTypes(types, roots) == ExpandFrom(types, roots, 1, <<>>)

-----------------------------------------------------------------------------
(* Type.GetQueryStringFields *)

\* sort.SliceStable(t.Fields, by Name): stable insertion.
RECURSIVE InsertSorted(_, _)
InsertSorted(sorted, f) ==
    IF Len(sorted) = 0 THEN <<f>>
    ELSE IF NameLess(f.Name, sorted[Len(sorted)].Name)
         THEN Append(InsertSorted(SubSeq(sorted, 1, Len(sorted) - 1), f), sorted[Len(sorted)])
         ELSE Append(sorted, f)

RECURSIVE SortStable(_)
SortStable(fields) ==
    IF Len(fields) = 0 THEN <<>>
    ELSE InsertSorted(SortStable(SubSeq(fields, 1, Len(fields) - 1)), fields[Len(fields)])

\* Mutant: the depth check lets one more level through.
DepthExceededLate(depth, maxDepth) == depth > maxDepth + 1

DepthExceeded(depth, maxDepth) == depth > maxDepth

\* Mutant: only the length of the split is looked at, which is never 0.
EmptySelectionByLines(subTContent) == Len(Split(subTContent)) < 1

EmptySelection(subTContent) == subTContent = <<>> \/ Len(Split(subTContent)) < 1

Indent(lines) == [i \in 1..Len(lines) |-> <<TAB>> \o lines[i]]

FieldBlock(name, lastKind, subTLines) ==
    <<Str(name) \o <<" {">>>>
    \o (IF lastKind = KindInterface THEN <<<<TAB, "__typename">>>> ELSE <<>>)
    \o Indent(subTLines)
    \o <<<<"}">>>>

\* Mutant: no line of a possible type is skipped.
FragmentLineKept(b, parentFieldNames) == FALSE

FragmentLineSkipped(b, parentFieldNames) == stringInStrings(b, parentFieldNames)

RECURSIVE KeepLines(_, _)
KeepLines(lines, parentFieldNames) ==
    IF Len(lines) = 0 THEN <<>>
    ELSE (IF FragmentLineSkipped(lines[1], parentFieldNames)
          THEN <<>> ELSE <<<<TAB>> \o lines[1]>>)
         \o KeepLines(Tail(lines), parentFieldNames)

Fragment(name, possibleTLines, parentFieldNames) ==
    <<<<"... on ", name, " {">>, <<TAB, "__typename">>>>
    \o KeepLines(possibleTLines, parentFieldNames)
    \o <<<<"}">>>>

\* Mutant: the possible type is synthesized at the depth of the caller.
PossibleTypeCallerDepth(depth) == depth - 1

\* The depth the recursive call for a possible type is given.
PossibleTypeDepth(depth) == depth

\* A call chain longer than this never returns: past maxDepth only possible
\* types are descended into, whatever the depth, so a chain with more such
\* frames than there are Types repeats a Type and goes on for ever (in Go,
\* until the goroutine stack is exhausted and the process dies).
StackLimit(types, maxDepth) == maxDepth + Len(types) + 1

RECURSIVE GetQueryStringFields(_, _, _), FieldLoop(_, _, _, _), PossibleTypeLoop(_, _, _, _)

\* c: the arguments [depth, maxDepth, isMutation, excludeFields] and the
\* number of frames already on the stack. The outcome is the returned
\* string, or a nil dereference, or an endless recursion; with the Types as
\* the call leaves them.
GetQueryStringFields(types, t, c) ==
    IF t = Nil THEN [st |-> "panic", types |-> types, out |-> <<>>]
    ELSE IF c.height > StackLimit(types, c.maxDepth)
    THEN [st |-> "overflow", types |-> types, out |-> <<>>]
    ELSE LET cc == [c EXCEPT !.depth = @ + 1, !.height = @ + 1]
             sorted == [types EXCEPT ![t].Fields = SortStable(@)]
             a1 == FieldLoop(sorted[t].Fields, 1, cc,
                       [st |-> "ok", types |-> sorted, lines |-> <<>>,
                        parentFieldNames |-> <<>>])
             a2 == PossibleTypeLoop(sorted[t].PossibleTypes, 1, cc, a1)
         IN [st |-> a2.st, types |-> a2.types,
             out |-> IF a2.st = "ok" THEN Join(a2.lines) ELSE <<>>]

FieldLoop(fields, i, c, a) ==
    IF i > Len(fields) \/ a.st # "ok" THEN a
    ELSE LET field == fields[i]
             lastKind == LastKind(field.Type)
         IN IF ~c.isMutation /\ HasRequiredArg(field) THEN FieldLoop(fields, i + 1, c, a)
            ELSE IF stringInStrings(Str(field.Name), c.excludeFields)
            THEN FieldLoop(fields, i + 1, c, a)
            ELSE IF lastKind \in {KindObject, KindInterface}
            THEN IF DepthExceeded(c.depth, c.maxDepth) THEN FieldLoop(fields, i + 1, c, a)
                 ELSE LET subT == LookupTypeByName(a.types, GetTypeName(field.Type))
                      IN IF subT = Nil THEN FieldLoop(fields, i + 1, c, a)
                         ELSE LET r == GetQueryStringFields(a.types, subT, c)
                              IN IF r.st # "ok"
                                 THEN [a EXCEPT !.st = r.st, !.types = r.types]
                                 ELSE IF EmptySelection(r.out)
                                 THEN FieldLoop(fields, i + 1, c,
                                          [a EXCEPT !.types = r.types])
                                 ELSE FieldLoop(fields, i + 1, c,
                                          [a EXCEPT !.types = r.types,
                                                    !.lines = @ \o FieldBlock(field.Name,
                                                                      lastKind, Split(r.out))])
            ELSE FieldLoop(fields, i + 1, c,
                     [a EXCEPT !.lines = Append(@, Str(field.Name)),
                               !.parentFieldNames = Append(@, Str(field.Name))])

PossibleTypeLoop(pts, k, c, a) ==
    IF k > Len(pts) \/ a.st # "ok" THEN a
    ELSE LET possibleT == LookupTypeByName(a.types, pts[k].Name)
             r == GetQueryStringFields(a.types, possibleT,
                      [c EXCEPT !.depth = PossibleTypeDepth(@)])
         IN IF r.st # "ok" THEN [a EXCEPT !.st = r.st, !.types = r.types]
            ELSE PossibleTypeLoop(pts, k + 1, c,
                     [a EXCEPT !.types = r.types,
                               !.lines = @ \o Fragment(pts[k].Name, Split(r.out),
                                                       a.parentFieldNames)])

-----------------------------------------------------------------------------
(* The schemas: three Types, Entity (an interface), Widget and Part, in the *)
(* order of Schema.Types, each with one of a few field lists. "Missing" and *)
(* the scalars "ID" and "String" name no Type of the schema.                *)

Ref(kind, name) == <<[Kind |-> kind, Name |-> name]>>

Wrap(kind, ref) == <<[Kind |-> kind, Name |-> ""]>> \o ref

Field(name, type) == [Name |-> name, Type |-> type, Args |-> <<>>]

FieldWithArg(name, type, argType, hasDefault) ==
    [Name |-> name, Type |-> type,
     Args |-> <<[Name |-> "arg", Type |-> argType, HasDefault |-> hasDefault]>>]

TypeOf(name, kind, fields, inputFields, possibleTypes) ==
    [Name |-> name, Kind |-> kind, Fields |-> fields, InputFields |-> inputFields,
     PossibleTypes |-> possibleTypes]

fID == Field("id", Wrap(KindNonNull, Ref(KindScalar, "ID")))

fName == Field("name", Ref(KindScalar, "String"))

fNameRequiredArg ==
    FieldWithArg("name", Ref(KindScalar, "String"),
                 Wrap(KindNonNull, Ref(KindScalar, "ID")), FALSE)

fNameDefaultedArg ==
    FieldWithArg("name", Ref(KindScalar, "String"),
                 Wrap(KindNonNull, Ref(KindScalar, "ID")), TRUE)

fWidget == Field("widget", Ref(KindObject, "Widget"))

fWidgets == Field("widgets", Wrap(KindNonNull, Wrap(KindList, Ref(KindObject, "Widget"))))

fPart == Field("part", Ref(KindObject, "Part"))

fParts == Field("parts", Wrap(KindList, Ref(KindObject, "Part")))

fOwner == Field("owner", Ref(KindInterface, "Entity"))

fGhost == Field("ghost", Ref(KindObject, "Missing"))

PossibleType(name) == [Kind |-> KindObject, Name |-> name]

\* Entity: its fields out of name order with an unwrapped object reference
\* and no possible type, Widget, or a name the schema does not hold; out of
\* name order with wrapped references only; or scalars only.
Entities ==
    { TypeOf("Entity", KindInterface, <<fWidget, fID>>, <<>>, possibleTypes) :
        possibleTypes \in { <<>>, <<PossibleType("Widget")>>,
                            <<PossibleType("Missing"), PossibleType("Widget")>> } }
    \cup { TypeOf("Entity", KindInterface, <<fWidgets, fParts>>, <<>>, <<>>),
           TypeOf("Entity", KindInterface, <<fID, fNameRequiredArg>>, <<>>,
                  <<PossibleType("Widget"), PossibleType("Part")>>) }

\* Widget: referring on to Part; back to Entity through a field; to itself,
\* under the name Entity has for its own Widget field, and to a name the
\* schema does not hold; or back to Entity through a possible type.
Widgets ==
    { TypeOf("Widget", KindObject, fields, <<>>, <<>>) :
        fields \in { <<fID, fPart>>, <<fOwner, fID>>, <<fWidget, fID, fGhost>> } }
    \cup { TypeOf("Widget", KindObject, <<fID, fPart>>, <<>>, <<PossibleType("Entity")>>) }

\* Part as an object, as an object whose only field needs an argument, and as
\* an input object.
Parts ==
    { TypeOf("Part", KindObject, <<fName>>, <<>>, <<>>),
      TypeOf("Part", KindObject, <<fNameRequiredArg>>, <<>>, <<>>),
      TypeOf("Part", KindInputObject, <<>>, <<fWidgets, fNameDefaultedArg>>, <<>>) }

Schemas == { <<e, w, p>> : e \in Entities, w \in Widgets, p \in Parts }

\* The names of the TypeInfo a caller asks ExpandTypes for.
RootSets == { {"Entity"}, {"Part"}, {"part"}, {"Entity", "Widget"},
              {"Widget", "Part"}, {"Missing", "Entity"} }

ExcludeLists == { <<>>, <<Str("id")>> }

-----------------------------------------------------------------------------
(* The program: a Schema is loaded, then the generator calls ExpandTypes   *)
(* and GetQueryStringFields on it any number of times. A panic or an       *)
(* exhausted stack ends the process.                                       *)

NoCall ==
    [op |-> "none", roots |-> {}, t |-> Nil, maxDepth |-> 0, isMutation |-> FALSE,
     excludeFields |-> <<>>, st |-> "ok", out |-> <<>>]

Running == result.st = "ok"

Init ==
    /\ Types \in Schemas
    /\ result = NoCall

RunExpandTypes(roots) ==
    /\ Running
    /\ result' = [NoCall EXCEPT !.op = "ExpandTypes", !.roots = roots,
                                !.out = ExpandTypes(Types, roots)]
    /\ UNCHANGED Types

RunGetQueryStringFields(t, maxDepth, isMutation, excludeFields) ==
    /\ Running
    /\ LET r == GetQueryStringFields(Types, t,
                    [depth |-> 0, maxDepth |-> maxDepth, isMutation |-> isMutation,
                     excludeFields |-> excludeFields, height |-> 0])
       IN /\ Types' = r.types
          /\ result' = [NoCall EXCEPT !.op = "GetQueryStringFields", !.t = t,
                                      !.maxDepth = maxDepth, !.isMutation = isMutation,
                                      !.excludeFields = excludeFields,
                                      !.st = r.st, !.out = r.out]

Next ==
    \/ \E roots \in RootSets : RunExpandTypes(roots)
    \/ \E t \in 1..Len(Types), maxDepth \in 0..MaxDepth, isMutation \in BOOLEAN,
          excludeFields \in ExcludeLists :
           RunGetQueryStringFields(t, maxDepth, isMutation, excludeFields)

Spec == Init /\ [][Next]_vars

-----------------------------------------------------------------------------
(* Reading a synthesized selection: its lines, their indentation, blocks.  *)

Returned(op) == result.op = op /\ result.st = "ok"

OutLines == Split(result.out)

RECURSIVE Tabs(_)
Tabs(line) == IF Len(line) > 0 /\ line[1] = TAB THEN 1 + Tabs(Tail(line)) ELSE 0

Body(line) == SubSeq(line, Tabs(line) + 1, Len(line))

IsOpen(line) == Len(Body(line)) > 0 /\ Body(line)[Len(Body(line))] = " {"

IsFragmentOpen(line) == IsOpen(line) /\ Body(line)[1] = "... on "

IsFieldOpen(line) == IsOpen(line) /\ ~IsFragmentOpen(line)

\* Line k lies inside the block that line j opens.
Encloses(lines, j, k) ==
    /\ j < k
    /\ IsOpen(lines[j])
    /\ \A m \in (j + 1)..k : Tabs(lines[m]) > Tabs(lines[j])

\* Line k is a line of the block that line j opens, not of a block inside it.
DirectlyIn(lines, j, k) ==
    Encloses(lines, j, k) /\ Tabs(lines[k]) = Tabs(lines[j]) + 1

\* The number of field blocks around a line, the line's own block included.
FieldLevel(lines, i) ==
    Cardinality({ j \in 1..i : IsFieldOpen(lines[j]) /\ (j = i \/ Encloses(lines, j, i)) })

\* The lines of the target's own selection, outside every block.
TopLevel(lines) == { i \in 1..Len(lines) : Tabs(lines[i]) = 0 }

\* Some line directly in a top-level fragment "... on name {" has this body.
InFragmentOf(lines, name, body) ==
    \E j \in TopLevel(lines), k \in 1..Len(lines) :
        /\ lines[j] = <<"... on ", name, " {">>
        /\ DirectlyIn(lines, j, k)
        /\ Body(lines[k]) = body

InSomeFragment(lines, body) ==
    \E j \in TopLevel(lines), k \in 1..Len(lines) :
        /\ IsFragmentOpen(lines[j])
        /\ DirectlyIn(lines, j, k)
        /\ Body(lines[k]) = body

\* The field is neither skipped for a required argument nor excluded, in the
\* call that result records.
Selected(field) ==
    /\ result.isMutation \/ ~HasRequiredArg(field)
    /\ ~stringInStrings(Str(field.Name), result.excludeFields)

IsNested(field) == LastKind(field.Type) \in {KindObject, KindInterface}

\* The selection of Type t is not empty at any depth: one of its fields is a
\* selected leaf.
HasSelectedLeaf(t) ==
    \E i \in 1..Len(Types[t].Fields) :
        Selected(Types[t].Fields[i]) /\ ~IsNested(Types[t].Fields[i])

\* A selected object or interface field whose Type resolves and has a
\* selection at any depth: only the depth decides whether it is emitted.
DepthDecides(field) ==
    /\ Selected(field)
    /\ IsNested(field)
    /\ LookupTypeByName(Types, GetTypeName(field.Type)) # Nil
    /\ HasSelectedLeaf(LookupTypeByName(Types, GetTypeName(field.Type)))

FieldsOf(t) == { Types[t].Fields[i] : i \in 1..Len(Types[t].Fields) }

PossibleTypesOf(t) ==
    { LookupTypeByName(Types, Types[t].PossibleTypes[k].Name) :
        k \in 1..Len(Types[t].PossibleTypes) } \ {Nil}

-----------------------------------------------------------------------------
(* Type expansion *)

\* C1: the sequence ExpandTypes returns never holds two Types with the same
\* name, also when a root is referenced by a field of a root that precedes it
\* in the Schema's order.
C1_NoDuplicateTypes ==
    Returned("ExpandTypes") =>
        \A i, j \in 1..Len(result.out) :
            Types[result.out[i]].Name = Types[result.out[j]].Name => i = j

RootsFound(roots) == { t \in 1..Len(Types) : Types[t].Name \in roots }

\* The Types one hop from t: the Type named by the leaf of the TypeRef of
\* each field and input field, wrapped or not.
OneHop(t) ==
    { LookupTypeByName(Types, GetTypeName(f.Type)) :
        f \in FieldsOf(t) \cup { Types[t].InputFields[i] : i \in 1..Len(Types[t].InputFields) } }
    \ {Nil}

\* C2: ExpandTypes returns exactly the roots found in the Schema and every
\* Type one hop from a root through a field or input field, whether the
\* field's TypeRef is wrapped or not, and no Type two hops away.
C2_RootsAndOneHop ==
    Returned("ExpandTypes") =>
        { result.out[i] : i \in 1..Len(result.out) }
            = RootsFound(result.roots)
              \cup UNION { OneHop(t) : t \in RootsFound(result.roots) }

-----------------------------------------------------------------------------
(* Selection-set synthesis *)

\* C3: a name LookupTypeByName cannot resolve, as the Type of a field or as a
\* possible type, never makes GetQueryStringFields fail or crash.
C3_NoCrashOnUnresolved == result.st # "panic"

\* C4: a call of GetQueryStringFields leaves the Schema unchanged: every Type
\* has the same Fields in the same order after the call as before.
C4_SchemaUnchanged == [][Types' = Types]_vars

Calls ==
    [depth : {0}, maxDepth : 0..MaxDepth, isMutation : BOOLEAN,
     excludeFields : ExcludeLists, height : {0}]

\* C5: for fixed inputs ExpandTypes returns the same sequence and
\* GetQueryStringFields the same string before and after any call made on the
\* Schema in between.
C5_Deterministic ==
    [][/\ \A roots \in RootSets : ExpandTypes(Types', roots) = ExpandTypes(Types, roots)
       /\ \A t \in 1..Len(Types), c \in Calls :
              LET before == GetQueryStringFields(Types, t, c)
                  after == GetQueryStringFields(Types', t, c)
              IN before.st = after.st /\ before.out = after.out]_vars

\* C6: GetQueryStringFields returns for every Schema and every maxDepth, also
\* when Types refer to each other in a cycle through fields or through
\* possible types: the recursion never goes on for ever.
C6_Terminates == result.st # "overflow"

\* C7: with maxDepth = D and a start at depth 0, no field block of the output
\* lies more than D field blocks deep, inline fragments around it or not.
C7_DepthBound ==
    Returned("GetQueryStringFields") =>
        \A i \in 1..Len(OutLines) :
            IsFieldOpen(OutLines[i]) => FieldLevel(OutLines, i) <= result.maxDepth

\* The deepest field block the bound allows is emitted, and a field block
\* lies inside an inline fragment.
C7_Witness ==
    /\ Returned("GetQueryStringFields")
    /\ result.maxDepth = MaxDepth
    /\ \E i \in 1..Len(OutLines) :
           IsFieldOpen(OutLines[i]) /\ FieldLevel(OutLines, i) = MaxDepth
    /\ \E j, i \in 1..Len(OutLines) :
           /\ IsFragmentOpen(OutLines[j])
           /\ IsFieldOpen(OutLines[i])
           /\ Encloses(OutLines, j, i)

\* C8: every block the output opens, field block or inline fragment, has at
\* least one selection line before its close.
C8_NoEmptyBlock ==
    Returned("GetQueryStringFields") =>
        \A i \in 1..Len(OutLines) :
            IsOpen(OutLines[i]) =>
                \E k \in 1..Len(OutLines) :
                    Encloses(OutLines, i, k) /\ Body(OutLines[k]) # <<>>

\* A selected object field of the target whose Type resolves, within the
\* depth, is left out because the Type's selection is empty.
C8_Witness ==
    /\ Returned("GetQueryStringFields")
    /\ result.maxDepth >= 1
    /\ result.out # <<>>
    /\ \E f \in FieldsOf(result.t) :
           /\ Selected(f)
           /\ IsNested(f)
           /\ LookupTypeByName(Types, GetTypeName(f.Type)) # Nil
           /\ \A i \in TopLevel(OutLines) : OutLines[i] # <<f.Name, " {">>

FragmentFieldsFrom(least) ==
    \A p \in PossibleTypesOf(result.t) : \A g \in FieldsOf(p) :
        DepthDecides(g) =>
            (InFragmentOf(OutLines, Types[p].Name, <<g.Name, " {">>)
                <=> result.maxDepth >= least)

\* The target's own nested fields that only the depth decides are emitted
\* from maxDepth 1 on.
DirectFieldsFromOne ==
    \A f \in FieldsOf(result.t) :
        DepthDecides(f) =>
            ((\E i \in TopLevel(OutLines) : OutLines[i] = <<f.Name, " {">>)
                <=> result.maxDepth >= 1)

\* C10 as stated: entering a fragment takes no depth level, a nested field of
\* a possible type is in the fragment under the condition under which a
\* nested field of the target itself is emitted.
C10_FragmentAtSameDepth ==
    Returned("GetQueryStringFields") => DirectFieldsFromOne /\ FragmentFieldsFrom(1)

\* C10 as amended: every recursive call takes a depth level, the call for a
\* possible type too: a nested field of a possible type is in the fragment
\* under the condition of a field one level deeper than the target's own.
C10_FragmentOneDeeper ==
    Returned("GetQueryStringFields") => DirectFieldsFromOne /\ FragmentFieldsFrom(2)

\* At maxDepth 1 the target emits a nested field of its own and has a
\* possible type with a nested field that only the depth decides.
C10_Witness ==
    /\ Returned("GetQueryStringFields")
    /\ result.maxDepth = 1
    /\ \E f \in FieldsOf(result.t) :
           DepthDecides(f) /\ \E i \in TopLevel(OutLines) : OutLines[i] = <<f.Name, " {">>
    /\ \E p \in PossibleTypesOf(result.t) : \E g \in FieldsOf(p) :
           /\ DepthDecides(g)
           /\ \E j \in TopLevel(OutLines) :
                  OutLines[j] = <<"... on ", Types[p].Name, " {">>

====
